---- MODULE Spec2Model ----
(***************************************************************************)
(* A model of mkdocs_drawio_file/plugin.py: the DrawioFilePlugin hooks     *)
(* that replace <img src="*.drawio"> references of a rendered page by an   *)
(* embedded viewer widget.                                                 *)
(*                                                                         *)
(* Strings of the program are sequences of one-character strings, so that  *)
(* str.lstrip, str.lower, str.replace, the substring test and the escape   *)
(* table act on characters as they do in Python.                           *)
(***************************************************************************)
EXTENDS Integers, Sequences, FiniteSets, TLC

VARIABLES
    file_extension,         \* config["file_extension"] of the plugin instance
    parsed_diagrams_cache,  \* self.parsed_diagrams_cache: full_path -> serialized diagram
    parse_count,            \* successful etree.parse calls per full_path (instrumentation)
    output_content,         \* the page handed to the last on_post_page call
    returned,               \* what that call gave back to the build pipeline
    log,                    \* levels of the records self.log received during that call
    call,                   \* last direct call of a helper method: its name and arguments
    ret                     \* and what it returned

vars == <<file_extension, parsed_diagrams_cache, parse_count, output_content,
          returned, log, call, ret>>

----------------------------------------------------------------------------
(* Bounds of the model *)

\* longest string handed to escape_diagram directly
MaxStrLen == 3
\* longest src handed to path resolution directly
MaxSrcLen == 7
\* most <diagram> sheets of a diagram file handed to parse_diagram directly
MaxSheets == 3
\* most elements in the body of a page
MaxRefs == 2
\* parse_count saturates here (only a plugin that re-parses gets that far)
MaxParses == 2

----------------------------------------------------------------------------
(* Characters and strings *)

NL == "\n"
QUOT == "\""
APOS == "'"

NoCall == [fn |-> "none"]
NoRet == [raised |-> FALSE]

\* the empty dict
EmptyDict == [k \in {} |-> <<>>]

\* s[i..] as a string; i may be Len(s) + 1
Drop(s, i) == SubSeq(s, i, Len(s))

\* needle occurs in s at position i
StartsWithAt(s, i, needle) ==
    /\ i + Len(needle) - 1 <= Len(s)
    /\ \A k \in 1..Len(needle) : s[i + k - 1] = needle[k]

\* Python's  needle in s
Contains(s, needle) == \E i \in 1..(Len(s) + 1) : StartsWithAt(s, i, needle)

\* str.lower on the letters the model uses
LowerChar(c) ==
    CASE c = "D" -> "d" [] c = "R" -> "r" [] c = "A" -> "a" [] c = "W" -> "w"
      [] c = "I" -> "i" [] c = "O" -> "o" [] c = "B" -> "b" [] OTHER -> c

Lower(s) == [i \in 1..Len(s) |-> LowerChar(s[i])]

\* all strings over alphabet of length at most n
RECURSIVE StringsUpTo(_, _)
StringsUpTo(alphabet, n) ==
    IF n = 0 THEN {<<>>}
    ELSE LET shorter == StringsUpTo(alphabet, n - 1)
         IN shorter \cup {Append(s, c) : s \in shorter, c \in alphabet}

----------------------------------------------------------------------------
(* escape_diagram *)

\* escape_map of escape_diagram; escape_map.get(char, char)
EscapeChar(char) ==
    CASE char = "&" -> <<"&", "a", "m", "p", ";">>
      [] char = "<" -> <<"&", "l", "t", ";">>
      [] char = ">" -> <<"&", "g", "t", ";">>
      [] char = QUOT -> <<"&", "q", "u", "o", "t", ";">>
      [] char = APOS -> <<"&", "a", "p", "o", "s", ";">>
      [] OTHER -> <<char>>

\* ''.join(parts)
RECURSIVE Join(_)
Join(parts) == IF parts = <<>> THEN <<>> ELSE Head(parts) \o Join(Tail(parts))

\* ''.join(escape_map.get(char, char) for char in str_xml), from character i on
RECURSIVE EscapeFrom(_, _)
EscapeFrom(str_xml, i) ==
    IF i > Len(str_xml) THEN <<>>
    ELSE EscapeChar(str_xml[i]) \o EscapeFrom(str_xml, i + 1)

\* str.replace('\n', '')
RemoveNewlines(s) == SelectSeq(s, LAMBDA c : c # NL)

\* a slip: the newline removal left out
escape_diagram_keeps_newlines(str_xml) == EscapeFrom(str_xml, 1)

\* a slip: the table applied as successive str.replace calls with the
\* ampersand last, so the ampersands of the entities are escaped again
escape_diagram_amp_last(str_xml) ==
    LET others == Join([i \in 1..Len(str_xml) |->
                    IF str_xml[i] = "&" THEN <<"&">> ELSE EscapeChar(str_xml[i])])
    IN RemoveNewlines(Join([i \in 1..Len(others) |->
                    IF others[i] = "&" THEN EscapeChar("&") ELSE <<others[i]>>]))

escape_diagram(str_xml) == RemoveNewlines(EscapeFrom(str_xml, 1))

\* The inverse the round-trip property names: one left-to-right pass that
\* replaces each of the five entities by its character.
EntityOf ==
    [c \in {"&", "<", ">", QUOT, APOS} |->
        CASE c = "&" -> <<"&", "a", "m", "p", ";">>
          [] c = "<" -> <<"&", "l", "t", ";">>
          [] c = ">" -> <<"&", "g", "t", ";">>
          [] c = QUOT -> <<"&", "q", "u", "o", "t", ";">>
          [] c = APOS -> <<"&", "a", "p", "o", "s", ";">>]

RECURSIVE unescape(_)
unescape(s) ==
    IF s = <<>> THEN <<>>
    ELSE IF \E c \in DOMAIN EntityOf : StartsWithAt(s, 1, EntityOf[c])
         THEN LET c == CHOOSE c \in DOMAIN EntityOf : StartsWithAt(s, 1, EntityOf[c])
              IN <<c>> \o unescape(Drop(s, Len(EntityOf[c]) + 1))
         ELSE <<Head(s)>> \o unescape(Tail(s))

----------------------------------------------------------------------------
(* Diagram files: lxml trees and their serialization *)

\* A parsed diagram file (etree._ElementTree) is its root element: the tag,
\* the serialized attributes, and the <diagram> children in document order,
\* each with its name attribute and the text that follows it (its tail).
\* Sheet names are drawn from letters and the apostrophe, which
\* etree.tostring writes unescaped inside a double-quoted attribute.
MxTag == <<"m", "x", "f", "i", "l", "e">>
GraphTag == <<"m", "x", "G", "r", "a", "p", "h", "M", "o", "d", "e", "l">>

Sheet(name, tail) == [name |-> name, tail |-> tail]
Doc(tag, attrib, sheets) == [tag |-> tag, attrib |-> attrib, sheets |-> sheets]

SheetXml(sh) ==
    <<"<", "d", "i", "a", "g", "r", "a", "m", " ", "n", "a", "m", "e", "=", QUOT>>
    \o sh.name \o <<QUOT, "/", ">">> \o sh.tail

\* etree.tostring(element, encoding=str)
tostring(doc) ==
    IF doc.sheets = <<>>
    THEN <<"<">> \o doc.tag \o doc.attrib \o <<"/", ">">>
    ELSE <<"<">> \o doc.tag \o doc.attrib \o <<">">>
         \o Join([i \in 1..Len(doc.sheets) |-> SheetXml(doc.sheets[i])])
         \o <<"<", "/">> \o doc.tag \o <<">">>

\* alt is None or a string: <<>> stands for None, <<s>> for the string s
None == <<>>
Some(s) == <<s>>

\* mxfile.xpath(f"//diagram[@name='{alt}']"): the expression is built by
\* pasting alt between apostrophes.  For alt over letters and apostrophes,
\* an apostrophe in alt ends the literal early and what follows is no XPath
\* expression: lxml raises XPathEvalError.
XPathRaises(alt) == \E i \in 1..Len(alt) : alt[i] = APOS

\* the <diagram> elements the expression selects, in document order
XPathPages(doc, alt) == SelectSeq(doc.sheets, LAMBDA sh : sh.name = alt)

\* parse_diagram(self, data, alt): the serialized diagram and what it logs
parse_diagram(data, alt) ==
    IF alt = None
    THEN [xml |-> tostring(data), log |-> <<>>]
    ELSE IF data.tag # MxTag
         THEN \* data.xpath("//mxfile")[0] raises IndexError
              [xml |-> tostring(data), log |-> <<"error">>]
    ELSE IF XPathRaises(alt[1])
         THEN [xml |-> tostring(data), log |-> <<"error">>]
    ELSE LET pages == XPathPages(data, alt[1])
         IN IF Len(pages) = 1
            THEN [xml |-> tostring(Doc(data.tag, data.attrib, <<pages[1]>>)),
                  log |-> <<>>]
            ELSE [xml |-> tostring(data), log |-> <<"warning">>]

----------------------------------------------------------------------------
(* Path resolution *)

\* str.lstrip(chars): leading characters that are in chars are dropped
RECURSIVE lstrip(_, _)
lstrip(s, chars) ==
    IF s # <<>> /\ Head(s) \in chars THEN lstrip(Tail(s), chars) ELSE s

\* os.path.join(a, b) on POSIX
os_path_join(a, b) ==
    IF b # <<>> /\ Head(b) = "/" THEN b
    ELSE IF a = <<>> \/ a[Len(a)] = "/" THEN a \o b
    ELSE a \o <<"/">> \o b

\* the characters of the argument '../' of lstrip
StripChars == {".", "/"}

\* substitute_image, lines 150-151: src.lstrip('../') joined with path
resolve(path, src) == os_path_join(path, lstrip(src, StripChars))

\* what the comment on line 149 describes: one leading "../" removed
StripOneParent(src) ==
    IF StartsWithAt(src, 1, <<".", ".", "/">>) THEN Drop(src, 4) ELSE src

----------------------------------------------------------------------------
(* The files on disk during one build run *)

\* dirname(page.file.abs_src_path) of the pages of the run
PageDir == <<"d", "o", "c", "s">>

DrawioExt == <<".", "d", "r", "a", "w", "i", "o">>
DioExt == <<".", "d", "i", "o">>
VersionAttr == <<" ", "v", "=", QUOT, "1", QUOT>>

SheetA == <<"A">>
SheetB == <<"B">>
SheetC == <<"C">>
SheetApos == <<"A", APOS, "s">>

\* docs/a.drawio: a pretty-printed file with the sheets A and B
FileAB == Doc(MxTag, VersionAttr, <<Sheet(SheetA, <<NL>>), Sheet(SheetB, <<NL>>)>>)
\* docs/a: a single-sheet file without the mxfile wrapper
FileGraph == Doc(GraphTag, <<>>, <<>>)

PathAB == PageDir \o <<"/", "a">> \o DrawioExt
PathGraph == PageDir \o <<"/", "a">>

\* etree.parse(full_path): the tree, or an exception (OSError for a missing
\* file).  Every path but the two above is missing.
etree_parse(full_path) ==
    IF full_path = PathAB THEN [raised |-> FALSE, tree |-> FileAB]
    ELSE IF full_path = PathGraph THEN [raised |-> FALSE, tree |-> FileGraph]
    ELSE [raised |-> TRUE, tree |-> FileGraph]

----------------------------------------------------------------------------
(* substitute_image *)

\* the nodes of a page
Img(src, alt) == [kind |-> "img", src |-> src, alt |-> alt, text |-> <<>>]
Text(t) == [kind |-> "text", src |-> <<>>, alt |-> None, text |-> t]
Script(src) == [kind |-> "script", src |-> src, alt |-> None, text |-> <<>>]
\* _create_diagram_html(escaped_xml): the fixed <div class="mxgraph"> whose
\* data-mxgraph attribute carries escaped_xml under the key xml
_create_diagram_html(escaped_xml) ==
    [kind |-> "div.mxgraph", src |-> <<>>, alt |-> None, text |-> escaped_xml]

\* a slip: the cache is never consulted
CacheHit_never(full_path, cache) == FALSE

\* line 154: full_path in self.parsed_diagrams_cache
CacheHit(full_path, cache) == full_path \in DOMAIN cache

CountParse(counts, full_path) ==
    IF full_path \in DOMAIN counts
    THEN [counts EXCEPT ![full_path] = IF @ < MaxParses THEN @ + 1 ELSE @]
    ELSE (full_path :> 1) @@ counts

\* substitute_image(self, path, src, alt) on the cache and counters given:
\* the html returned or the exception re-raised, the path it looked up, and
\* the cache, counters and log records it leaves
substitute_image(path, src, alt, cache, counts) ==
    LET full_path == resolve(path, src)
    IN IF CacheHit(full_path, cache)
       THEN [raised |-> FALSE, full_path |-> full_path,
             html |-> _create_diagram_html(escape_diagram(cache[full_path])),
             cache |-> cache, counts |-> counts, log |-> <<>>]
       ELSE LET diagram_xml == etree_parse(full_path)
            IN IF diagram_xml.raised
               THEN [raised |-> TRUE, full_path |-> full_path,
                     html |-> Img(src, alt),
                     cache |-> cache, counts |-> counts, log |-> <<"error">>]
               ELSE LET parsed == parse_diagram(diagram_xml.tree, alt)
                    IN [raised |-> FALSE, full_path |-> full_path,
                        html |-> _create_diagram_html(escape_diagram(parsed.xml)),
                        cache |-> (full_path :> parsed.xml) @@ cache,
                        counts |-> CountParse(counts, full_path),
                        log |-> parsed.log]

----------------------------------------------------------------------------
(* on_post_page *)

\* A page is the node sequence BeautifulSoup builds from output_content:
\* the children of <body>, or of the document when it has no <body>.
Page(body, elems) == [body |-> body, elems |-> elems]

AltText(alt) == IF alt = None THEN <<>> ELSE alt[1]

\* ext in output_content.lower(): markup outside attribute values and text
\* holds no dot, so the substring lies within one src, alt or text
PageContains(page, ext) ==
    \E i \in 1..Len(page.elems) :
        \/ Contains(Lower(page.elems[i].src), ext)
        \/ Contains(Lower(AltText(page.elems[i].alt)), ext)
        \/ Contains(Lower(page.elems[i].text), ext)

\* soup.findAll('img', src=re.compile(r'.*\.drawio', re.IGNORECASE))
IsDiagram(elem) == elem.kind = "img" /\ Contains(Lower(elem.src), DrawioExt)

HasDiagram(page) == \E i \in 1..Len(page.elems) : IsDiagram(page.elems[i])

\* _get_relative_viewer_path(page): os.path.join('static', 'viewer-static.min.js')
ViewerSrc ==
    os_path_join(<<"s", "t", "a", "t", "i", "c">>,
                 <<"v", "i", "e", "w", "e", "r", "-", "s", "t", "a", "t", "i", "c",
                   ".", "m", "i", "n", ".", "j", "s">>)

\* a slip: the viewer library is not added
AppendScript_forgotten(elems) == elems

\* lines 115-116: soup.body.append(lib)
AppendScript(elems) == Append(elems, Script(ViewerSrc))

\* a slip: no handler around one reference, the exception leaves the loop
ReferenceFailed_propagates(acc, sub) ==
    [acc EXCEPT !.raised = TRUE, !.log = @ \o sub.log]

\* lines 124-125: the handler around one reference logs a warning
ReferenceFailed(acc, sub) ==
    [acc EXCEPT !.log = (@ \o sub.log) \o <<"warning">>]

\* lines 120-125: the loop over diagrams, from node i on
RECURSIVE SubstituteFrom(_, _, _)
SubstituteFrom(path, i, acc) ==
    IF i > Len(acc.elems) \/ acc.raised THEN acc
    ELSE IF ~IsDiagram(acc.elems[i]) THEN SubstituteFrom(path, i + 1, acc)
    ELSE LET diagram == acc.elems[i]
             sub == substitute_image(path, diagram.src, diagram.alt,
                                     acc.cache, acc.counts)
             state == [acc EXCEPT !.cache = sub.cache, !.counts = sub.counts]
         IN IF sub.raised
            THEN SubstituteFrom(path, i + 1, ReferenceFailed(state, sub))
            ELSE SubstituteFrom(path, i + 1,
                     [state EXCEPT !.elems[i] = sub.html, !.log = @ \o sub.log])

\* lines 108-127: the body of the outer try
PageAttempt(page, cache, counts) ==
    LET start == [raised |-> FALSE, elems |-> page.elems, cache |-> cache,
                  counts |-> counts, log |-> <<>>]
    IN IF ~HasDiagram(page) THEN start
       ELSE IF ~page.body
            THEN \* soup.body is None: AttributeError
                 [start EXCEPT !.raised = TRUE]
       ELSE SubstituteFrom(PageDir, 1, [start EXCEPT !.elems = AppendScript(@)])

\* a slip: no handler around the page, the exception reaches the build
PageFailed_propagates(page, attempt) ==
    [raised |-> attempt.raised,
     html |-> IF HasDiagram(page) /\ ~attempt.raised
              THEN Page(TRUE, attempt.elems) ELSE page,
     cache |-> attempt.cache, counts |-> attempt.counts, log |-> attempt.log]

\* lines 127-131: return str(soup), or log the error and return output_content
PageResult(page, attempt) ==
    IF attempt.raised
    THEN [raised |-> FALSE, html |-> page, cache |-> attempt.cache,
          counts |-> attempt.counts, log |-> Append(attempt.log, "error")]
    ELSE [raised |-> FALSE,
          html |-> IF HasDiagram(page) THEN Page(TRUE, attempt.elems) ELSE page,
          cache |-> attempt.cache, counts |-> attempt.counts, log |-> attempt.log]

\* on_post_page(self, output_content, config, page)
on_post_page(page, cache, counts) ==
    IF ~PageContains(page, DrawioExt)
    THEN [raised |-> FALSE, html |-> page, cache |-> cache, counts |-> counts,
          log |-> <<>>]
    ELSE PageResult(page, PageAttempt(page, cache, counts))

----------------------------------------------------------------------------
(* Inputs *)

\* the nodes the pages of a build are made of
SrcPlain == <<"a">> \o DrawioExt
SrcParent == <<".", ".", "/", "a">> \o DrawioExt
SrcMissing == <<"m", ".", "D", "R", "A", "W", "I", "O">>

Elements ==
    { Img(SrcPlain, None),
      Img(SrcParent, Some(SheetA)),
      Img(SrcMissing, None),
      Text(<<"s", "e", "e", " ">> \o SrcPlain) }

Pages == {Page(body, elems) : body \in BOOLEAN, elems \in StringsUpTo(Elements, MaxRefs)}

\* strings handed to escape_diagram
EscapeAlphabet == {"&", "<", ">", QUOT, APOS, NL, "a", ";"}

\* srcs handed to substitute_image: dots, slashes and the letter a, ending
\* in a file name
SrcAlphabet == {".", "/", "a"}
SrcSet == {Append(src, "a") : src \in StringsUpTo(SrcAlphabet, MaxSrcLen - 1)}

\* diagram files and sheet names handed to parse_diagram
SheetNames == {SheetA, SheetB, SheetApos}
SheetSet == {Sheet(name, tail) : name \in SheetNames, tail \in {<<>>, <<NL>>}}
ParseDocs ==
    {Doc(MxTag, attrib, sheets) :
        attrib \in {<<>>, VersionAttr}, sheets \in StringsUpTo(SheetSet, MaxSheets)}
    \cup {FileGraph}
\* no alt attribute, a sheet name, a name no file holds, or alt=""
AltSet == {None} \cup {Some(name) : name \in SheetNames \cup {SheetC, <<>>}}

----------------------------------------------------------------------------
(* The plugin as a state machine *)

\* __init__: an empty cache; no page seen yet
InitPlugin ==
    /\ parsed_diagrams_cache = EmptyDict
    /\ parse_count = EmptyDict
    /\ output_content = Page(FALSE, <<>>)
    /\ returned = [raised |-> FALSE, html |-> Page(FALSE, <<>>)]
    /\ log = <<>>
    /\ ret = NoRet

\* the build pipeline hands one rendered page to on_post_page
OnPostPage ==
    \E page \in Pages :
        LET r == on_post_page(page, parsed_diagrams_cache, parse_count)
        IN /\ output_content' = page
           /\ returned' = [raised |-> r.raised, html |-> r.html]
           /\ parsed_diagrams_cache' = r.cache
           /\ parse_count' = r.counts
           /\ log' = r.log
           /\ UNCHANGED <<file_extension, call, ret>>

\* a direct call of substitute_image, with the arguments Init chose
CallSubstituteImage ==
    /\ call.fn = "substitute_image" /\ ret = NoRet
    /\ LET r == substitute_image(call.path, call.src, call.alt,
                                 parsed_diagrams_cache, parse_count)
       IN /\ ret' = [raised |-> r.raised, full_path |-> r.full_path]
          /\ parsed_diagrams_cache' = r.cache
          /\ parse_count' = r.counts
          /\ log' = r.log
    /\ UNCHANGED <<file_extension, output_content, returned, call>>

\* a direct call of parse_diagram
CallParseDiagram ==
    /\ call.fn = "parse_diagram" /\ ret = NoRet
    /\ LET r == parse_diagram(call.data, call.alt)
       IN /\ ret' = [raised |-> FALSE, xml |-> r.xml]
          /\ log' = r.log
    /\ UNCHANGED <<file_extension, parsed_diagrams_cache, parse_count,
                   output_content, returned, call>>

\* a direct call of escape_diagram
CallEscapeDiagram ==
    /\ call.fn = "escape_diagram" /\ ret = NoRet
    /\ ret' = [raised |-> FALSE, value |-> escape_diagram(call.str_xml)]
    /\ UNCHANGED <<file_extension, parsed_diagrams_cache, parse_count,
                   output_content, returned, log, call>>

\* one build run with the default configuration: pages come in any order
Init == InitPlugin /\ file_extension = DrawioExt /\ call = NoCall
Next == OnPostPage
Spec == Init /\ [][Next]_vars

\* one build run configured with file_extension: .dio
InitConfigured == InitPlugin /\ file_extension = DioExt /\ call = NoCall
SpecConfigured == InitConfigured /\ [][Next]_vars

\* substitute_image on any src
InitResolve ==
    /\ InitPlugin /\ file_extension = DrawioExt
    /\ call \in {[fn |-> "substitute_image", path |-> PageDir, src |-> src, alt |-> None] :
                    src \in SrcSet}
NextResolve == CallSubstituteImage
SpecResolve == InitResolve /\ [][NextResolve]_vars

\* parse_diagram on any diagram file and sheet name
InitParse ==
    /\ InitPlugin /\ file_extension = DrawioExt
    /\ call \in {[fn |-> "parse_diagram", data |-> data, alt |-> alt] :
                    data \in ParseDocs, alt \in AltSet}
NextParse == CallParseDiagram
SpecParse == InitParse /\ [][NextParse]_vars

\* escape_diagram on any string, and on what parse_diagram extracted (as
\* substitute_image calls it)
InitEscape ==
    /\ InitPlugin /\ file_extension = DrawioExt
    /\ call \in {[fn |-> "escape_diagram", str_xml |-> str_xml, extracted |-> FALSE] :
                    str_xml \in StringsUpTo(EscapeAlphabet, MaxStrLen)}
             \cup {[fn |-> "escape_diagram", str_xml |-> parse_diagram(data, alt).xml,
                    extracted |-> TRUE] : data \in ParseDocs, alt \in AltSet}
NextEscape == CallEscapeDiagram
SpecEscape == InitEscape /\ [][NextEscape]_vars

----------------------------------------------------------------------------
(* Properties *)

\* the page of the last on_post_page call and what came back
InElems == output_content.elems
OutElems == returned.html.elems

\* the last call went through the substitution loop and returned str(soup)
Substituted == HasDiagram(output_content) /\ output_content.body

\* the reference's file cannot be loaded: substitute_image raises
Fails(elem) == etree_parse(resolve(PageDir, elem.src)).raised

Count(s, c) == Cardinality({i \in 1..Len(s) : s[i] = c})

\* C1: on a page with several diagram references, a reference whose
\* substitution raises stays in the output as the original element, and every
\* reference whose substitution succeeds is replaced by its widget, wherever
\* the failing one stands.
C1_FailureIsolated ==
    Substituted =>
        \A i \in 1..Len(InElems) :
            IsDiagram(InElems[i]) =>
                IF Fails(InElems[i])
                THEN OutElems[i] = InElems[i]
                ELSE OutElems[i].kind = "div.mxgraph"

\* a failing reference stands before a substituted one
C1_Witness ==
    /\ Substituted
    /\ \E i, j \in 1..Len(InElems) :
          /\ i < j
          /\ IsDiagram(InElems[i]) /\ Fails(InElems[i]) /\ OutElems[i] = InElems[i]
          /\ IsDiagram(InElems[j]) /\ OutElems[j].kind = "div.mxgraph"

\* C2: every reference receives the content selected for its own sheet name,
\* also when the same file was referenced before with another sheet name.
C2_OwnSheetServed ==
    Substituted =>
        \A i \in 1..Len(InElems) :
            (IsDiagram(InElems[i]) /\ ~Fails(InElems[i])) =>
                OutElems[i] = _create_diagram_html(escape_diagram(
                    parse_diagram(etree_parse(resolve(PageDir, InElems[i].src)).tree,
                                  InElems[i].alt).xml))

\* C3: every path that was loaded has been parsed exactly once in the run,
\* however many references on this or earlier pages resolved to it, and it is
\* in the cache.
C3_ParsedOnce ==
    /\ DOMAIN parse_count = DOMAIN parsed_diagrams_cache
    /\ \A full_path \in DOMAIN parse_count : parse_count[full_path] = 1

\* two references of one page resolve to the same path through different
\* srcs, both are substituted, and the file was parsed once
C3_Witness ==
    /\ Substituted
    /\ \E i, j \in 1..Len(InElems) :
          /\ i < j
          /\ IsDiagram(InElems[i]) /\ IsDiagram(InElems[j])
          /\ InElems[i].src # InElems[j].src
          /\ resolve(PageDir, InElems[i].src) = resolve(PageDir, InElems[j].src)
          /\ OutElems[i].kind = "div.mxgraph" /\ OutElems[j].kind = "div.mxgraph"
          /\ parse_count[resolve(PageDir, InElems[i].src)] = 1

\* C4: a page that does not contain the configured file_extension
\* (case-insensitively) is returned unchanged.
C4_ConfiguredExtensionRejects ==
    ~PageContains(output_content, Lower(file_extension)) =>
        returned.html = output_content

\* C5: on_post_page never raises, and when the whole-page attempt fails (the
\* page has diagram references but no body to append the script to) it
\* returns the page exactly as passed in.
C5_NeverRaises ==
    /\ ~returned.raised
    /\ (HasDiagram(output_content) /\ ~output_content.body) =>
            returned.html = output_content

\* the page-level handler ran: an error was logged for a page with diagram
\* references and no body
C5_Witness ==
    /\ HasDiagram(output_content) /\ ~output_content.body
    /\ log = <<"error">>
    /\ returned.html = output_content

\* C6: parse_diagram with a sheet name on a multi-sheet mxfile: exactly one
\* diagram of that name gives mxfile's tag and attributes around that sheet
\* alone; none or several give the full mxfile and a logged record (a record
\* of any level is taken for the warning); it never raises.
C6_SheetSelected ==
    (/\ call.fn = "parse_diagram" /\ ret # NoRet
     /\ call.data.tag = MxTag /\ Len(call.data.sheets) >= 2
     /\ call.alt # None) =>
        LET named == SelectSeq(call.data.sheets, LAMBDA sh : sh.name = call.alt[1])
        IN /\ ~ret.raised
           /\ IF Len(named) = 1
              THEN ret.xml = tostring(Doc(MxTag, call.data.attrib, named))
              ELSE /\ ret.xml = tostring(call.data)
                   /\ log # <<>>

\* C7 as stated: unescaping the escaped form of an extracted XML string gives
\* back that string.
C7_RoundTripExact ==
    (call.fn = "escape_diagram" /\ ret # NoRet /\ call.extracted) =>
        unescape(ret.value) = call.str_xml

\* C7 as amended: unescaping the escaped form of a string gives back the
\* string with its newlines removed (the string itself when it has none).
C7_RoundTripWithoutNewlines ==
    (call.fn = "escape_diagram" /\ ret # NoRet) =>
        unescape(ret.value) = RemoveNewlines(call.str_xml)

\* an extracted string without newline, changed by escaping, came back whole
C7_Witness ==
    /\ call.fn = "escape_diagram" /\ ret # NoRet /\ call.extracted
    /\ Count(call.str_xml, NL) = 0
    /\ ret.value # call.str_xml
    /\ unescape(ret.value) = call.str_xml

\* C8: the output of escape_diagram holds no raw <, >, ", ' or newline, every
\* & in it starts one of the five entities, it is as long as the input with
\* each special character replaced by its entity and the newlines gone, and
\* reading the entities back gives the input less its newlines: it is the
\* character-wise replacement, and nothing else.
C8_EscapedOutput ==
    (call.fn = "escape_diagram" /\ ret # NoRet) =>
        LET x == call.str_xml
            out == ret.value
        IN /\ \A i \in 1..Len(out) : out[i] \notin {"<", ">", QUOT, APOS, NL}
           /\ \A i \in 1..Len(out) :
                 out[i] = "&" => \E c \in DOMAIN EntityOf : StartsWithAt(out, i, EntityOf[c])
           /\ Len(out) = Len(x) - Count(x, NL) + 4 * Count(x, "&") + 3 * Count(x, "<")
                         + 3 * Count(x, ">") + 5 * Count(x, QUOT) + 5 * Count(x, APOS)
           /\ unescape(out) = SelectSeq(x, LAMBDA c : c # NL)

\* a string with an ampersand, a quote and a newline was escaped
C8_Witness ==
    /\ call.fn = "escape_diagram" /\ ret # NoRet
    /\ Count(call.str_xml, "&") > 0
    /\ Count(call.str_xml, QUOT) > 0
    /\ Count(call.str_xml, NL) > 0

\* C9: the path looked up is the page directory joined with the src less one
\* leading "../", if it has one, and nothing else.
C9_OneParentStripped ==
    (call.fn = "substitute_image" /\ ret # NoRet) =>
        ret.full_path = os_path_join(call.path, StripOneParent(call.src))

\* C10: a page with at least one diagram reference that completes comes back
\* with exactly one script tag, the last child of body, whether or not any
\* substitution succeeded; a page without diagram reference comes back
\* unchanged.
C10_OneScriptLast ==
    /\ Substituted =>
          /\ Len(OutElems) = Len(InElems) + 1
          /\ OutElems[Len(OutElems)] = Script(ViewerSrc)
          /\ Cardinality({i \in 1..Len(OutElems) : OutElems[i].kind = "script"}) = 1
    /\ ~HasDiagram(output_content) => returned.html = output_content

\* every reference of the page failed and the script is there all the same
C10_Witness ==
    /\ Substituted
    /\ \A i \in 1..Len(InElems) :
          IsDiagram(InElems[i]) => (Fails(InElems[i]) /\ OutElems[i] = InElems[i])
    /\ OutElems[Len(OutElems)] = Script(ViewerSrc)

====
